---- MODULE Spec2Model ----
(***************************************************************************)
(* Anonymous payment commitments: the Poseidon Merkle tree                 *)
(* (utils/merkle-tree.ts), the payment service that inserts commitments    *)
(* (services/payment-service.ts) and the ZK proof verifier                 *)
(* (services/zk-verifier.ts).                                              *)
(*                                                                         *)
(* Values.  The code passes field elements around as decimal strings and   *)
(* converts them with BigInt() before hashing.  A string is modelled as a  *)
(* sequence of integers: <<>> is the empty string, <<n>> is the decimal    *)
(* string of the natural n, and a longer sequence is the decimal string of *)
(* a Poseidon output, written as the term that produced it (a tag followed *)
(* by the reduced arguments), so that Poseidon is collision-free.          *)
(***************************************************************************)
EXTENDS Integers, Sequences, FiniteSets, TLC

\* ------------------------------------------------------------------ bounds
\* The scalar field modulus p, scaled down.
FieldP == 3
\* The tree depth (the service uses 20), scaled down.
Depth == 2
\* Inserts explored on one tree: 2^Depth + 1 reaches the exhausted tree.
MaxInserts == 5
\* Successful payments explored by the payment service specification.
MaxPayments == 5
\* Successful payments explored while proofs are being verified.
MaxVerifyPayments == 2
\* Overlapping calls of PaymentService.initialize explored.
MaxInitCalls == 2
\* Concurrent POST /api/verify requests explored.
MaxScans == 2

VARIABLES
    merkleTree,     \* <<>> (null) or <<t>>, t the MerkleTree's private fields
    treeRet,        \* the last MerkleTree call and what it returned
    server,         \* "starting" until start() has called app.listen
    initialized,    \* PaymentService.initialized
    verificationKey,\* "vk" when the key file was read at module load, else "null"
    payReq,         \* the request of the last processPayment call
    payResp,        \* the response of the last processPayment call
    payments,       \* history: the successful payments, with their leaf index
    verif,          \* the verifyPaymentProof call in flight or last finished
    accepted,       \* history: how often the request in verif was answered
                    \* with valid: true
    latestAtCall,   \* history: the request in verif was, when it was
                    \* submitted, the honest one for the latest payment
    initCalls,      \* PaymentService.initialize calls: where each one stands
    quotes,         \* TicketService.quotes: quoteId -> priceCents
    issue,          \* the last POST /issue-with-zk call and its response
    ticketsIssued,  \* history: how many ticket tokens were signed
    verifierBuild,  \* which verifyTicketProof the build contains
    ticketDb,       \* the tickets table: ticket id -> isUsed
    scans           \* POST /api/verify handlers: where each one stands

treeVars == <<merkleTree, treeRet>>
serviceVars == <<server, initialized, verificationKey>>
payVars == <<payReq, payResp, payments>>
verifVars == <<verif, accepted, latestAtCall>>
issueVars == <<quotes, issue, ticketsIssued>>
scanVars == <<verifierBuild, ticketDb, scans>>
sideVars == <<initCalls, issueVars, scanVars>>
vars == <<merkleTree, treeRet, server, initialized, verificationKey,
          payReq, payResp, payments, verif, accepted, latestAtCall,
          initCalls, quotes, issue, ticketsIssued, verifierBuild, ticketDb,
          scans>>

Pow2(n) == 2 ^ n

\* ---------------------------------------------------------------- Poseidon
\* BigInt(s) followed by the field's F.e(): "" parses as 0, a decimal string
\* is reduced modulo p, a hash output is already reduced.
FieldOf(s) ==
    IF Len(s) = 0 THEN <<0>>
    ELSE IF Len(s) = 1 THEN <<s[1] % FieldP>>
    ELSE s

poseidon1(a) == <<-1>> \o FieldOf(a)
poseidon2Sync(l, r) == <<-2>> \o FieldOf(l) \o FieldOf(r)
poseidon3(a, b, c) == <<-3>> \o FieldOf(a) \o FieldOf(b) \o FieldOf(c)

\* ------------------------------------------------------------- MerkleTree
\* Every level given the value of the empty leaf.
zeros_flat(i) == <<0>>

RECURSIVE zeros(_)
zeros(i) == IF i = 0 THEN <<0>> ELSE poseidon2Sync(zeros(i - 1), zeros(i - 1))

NewMerkleTree(depth) ==
    [depth |-> depth, leaves |-> <<>>, nodes |-> <<>>, nextLeafIndex |-> 0]

\* leaves is a Map from index to string; it is modelled as a function on a
\* set of naturals.  `leaves.get(index) || zeros[0]`: a missing entry and an
\* empty string are both falsy.
getLeaf(t, index) ==
    IF index \in DOMAIN t.leaves /\ Len(t.leaves[index]) > 0
    THEN t.leaves[index]
    ELSE zeros(0)

\* The cache reduced to the node computed last.
RECURSIVE _getNode_forget(_, _, _)
_getNode_forget(t, index, level) ==
    IF level = 0 THEN [value |-> getLeaf(t, index), nodes |-> t.nodes]
    ELSE IF <<level, index>> \in DOMAIN t.nodes
    THEN [value |-> t.nodes[<<level, index>>], nodes |-> t.nodes]
    ELSE IF t.nextLeafIndex <= index * Pow2(level)
    THEN [value |-> zeros(level), nodes |-> t.nodes]
    ELSE LET l == _getNode_forget(t, index * 2, level - 1)
             r == _getNode_forget([t EXCEPT !.nodes = l.nodes], index * 2 + 1,
                                  level - 1)
             value == poseidon2Sync(l.value, r.value)
         IN  [value |-> value, nodes |-> (<<level, index>> :> value)]

\* _getNode returns the node value and fills the cache on the way: the result
\* is the pair of the value and the cache afterwards.
RECURSIVE _getNode(_, _, _)
_getNode(t, index, level) ==
    IF level = 0 THEN [value |-> getLeaf(t, index), nodes |-> t.nodes]
    ELSE IF <<level, index>> \in DOMAIN t.nodes
    THEN [value |-> t.nodes[<<level, index>>], nodes |-> t.nodes]
    ELSE IF t.nextLeafIndex <= index * Pow2(level)
    THEN [value |-> zeros(level), nodes |-> t.nodes]
    ELSE LET l == _getNode(t, index * 2, level - 1)
             r == _getNode([t EXCEPT !.nodes = l.nodes], index * 2 + 1, level - 1)
             value == poseidon2Sync(l.value, r.value)
         IN  [value |-> value,
              nodes |-> (<<level, index>> :> value) @@ r.nodes]

_clearCacheForPath_none(t, leafIndex) == t.nodes

\* The whole cache dropped.
_clearCacheForPath_all(t, leafIndex) == <<>>

\* Only the parent of the leaf dropped from the cache.
_clearCacheForPath_parentOnly(t, leafIndex) ==
    LET gone == {<<1, leafIndex \div 2>>}
    IN  [k \in (DOMAIN t.nodes) \ gone |-> t.nodes[k]]

_clearCacheForPath(t, leafIndex) ==
    LET gone == {<<level, leafIndex \div Pow2(level)>> : level \in 1..t.depth}
    IN  [k \in (DOMAIN t.nodes) \ gone |-> t.nodes[k]]

\* The leaf stored without advancing nextLeafIndex.
insert_sameIndex(t, leaf) ==
    LET index == t.nextLeafIndex
        t1 == [t EXCEPT !.leaves = (index :> leaf) @@ t.leaves]
    IN  [t1 EXCEPT !.nodes = _clearCacheForPath(t1, index)]

\* The new leaf written over the first leaf as well.
insert_overwriteFirst(t, leaf) ==
    LET index == t.nextLeafIndex
        t1 == [t EXCEPT !.leaves = (0 :> leaf) @@ (index :> leaf) @@ t.leaves,
                        !.nextLeafIndex = index + 1]
    IN  [t1 EXCEPT !.nodes = _clearCacheForPath(t1, index)]

\* nextLeafIndex advanced by two.
insert_skipIndex(t, leaf) ==
    LET index == t.nextLeafIndex
        t1 == [t EXCEPT !.leaves = (index :> leaf) @@ t.leaves,
                        !.nextLeafIndex = index + 2]
    IN  [t1 EXCEPT !.nodes = _clearCacheForPath(t1, index)]

\* insert: the tree afterwards; the returned index is the old nextLeafIndex.
insert(t, leaf) ==
    LET index == t.nextLeafIndex
        t1 == [t EXCEPT !.leaves = (index :> leaf) @@ t.leaves,
                        !.nextLeafIndex = index + 1]
    IN  [t1 EXCEPT !.nodes = _clearCacheForPath(t1, index)]

getRoot(t) == _getNode(t, 0, t.depth)

\* The node itself taken in the place of its sibling.
RECURSIVE getProofLoop_self(_, _, _, _, _)
getProofLoop_self(t, level, currentIndex, pathElements, pathIndices) ==
    IF level >= t.depth
    THEN [pathElements |-> pathElements, pathIndices |-> pathIndices,
          nodes |-> t.nodes]
    ELSE LET isRightChild == currentIndex % 2
             own == _getNode(t, currentIndex, level)
         IN  getProofLoop_self([t EXCEPT !.nodes = own.nodes], level + 1,
                               currentIndex \div 2,
                               Append(pathElements, own.value),
                               Append(pathIndices, isRightChild))

\* getProof: the path and the cache afterwards.  The loop state is
\* (level, currentIndex, pathElements, pathIndices, nodes).
RECURSIVE getProofLoop(_, _, _, _, _)
getProofLoop(t, level, currentIndex, pathElements, pathIndices) ==
    IF level >= t.depth
    THEN [pathElements |-> pathElements, pathIndices |-> pathIndices,
          nodes |-> t.nodes]
    ELSE LET isRightChild == currentIndex % 2
             siblingIndex == IF isRightChild # 0 THEN currentIndex - 1
                             ELSE currentIndex + 1
             sib == _getNode(t, siblingIndex, level)
         IN  getProofLoop([t EXCEPT !.nodes = sib.nodes], level + 1,
                          currentIndex \div 2,
                          Append(pathElements, sib.value),
                          Append(pathIndices, isRightChild))

getProof(t, leafIndex) == getProofLoop(t, 0, leafIndex, <<>>, <<>>)

MerklePath(p) == [pathElements |-> p.pathElements, pathIndices |-> p.pathIndices]

\* verifyProof folds over path.pathElements; pathIndices[i] is read as a
\* truthy/falsy number.
RECURSIVE verifyFold_noSwap(_, _, _)
verifyFold_noSwap(currentHash, path, i) ==
    IF i > Len(path.pathElements) THEN currentHash
    ELSE verifyFold_noSwap(poseidon2Sync(currentHash, path.pathElements[i]),
                           path, i + 1)

RECURSIVE verifyFold(_, _, _)
verifyFold(currentHash, path, i) ==
    IF i > Len(path.pathElements) THEN currentHash
    ELSE LET sibling == path.pathElements[i]
             isRightChild == path.pathIndices[i]
             left == IF isRightChild # 0 THEN sibling ELSE currentHash
             right == IF isRightChild # 0 THEN currentHash ELSE sibling
         IN  verifyFold(poseidon2Sync(left, right), path, i + 1)

verifyProof(leaf, path, root) == verifyFold(leaf, path, 1) = root

leafCount(t) == t.nextLeafIndex

\* Array.from(this.leaves.entries()): the [index, leaf] pairs in the Map's
\* insertion order, which is the order of the indices.
RECURSIVE entriesOf(_, _)
entriesOf(leaves, keys) ==
    IF keys = {} THEN <<>>
    ELSE LET k == CHOOSE x \in keys : \A y \in keys : x <= y
         IN  <<<<k, leaves[k]>>>> \o entriesOf(leaves, keys \ {k})

exportState(t) ==
    [depth |-> t.depth,
     leaves |-> entriesOf(t.leaves, DOMAIN t.leaves),
     nextLeafIndex |-> t.nextLeafIndex]

\* new Map(entries): for a key that occurs twice the last pair wins.
mapOf(entries) ==
    [k \in {entries[i][1] : i \in 1..Len(entries)} |->
        LET last == CHOOSE i \in 1..Len(entries) :
                        /\ entries[i][1] = k
                        /\ \A j \in 1..Len(entries) : entries[j][1] = k => j <= i
        IN  entries[last][2]]

\* The tree rebuilt without the saved nextLeafIndex.
importState_noIndex(state) ==
    [NewMerkleTree(state.depth) EXCEPT !.leaves = mapOf(state.leaves)]

\* importState: a new tree (zero table rebuilt, empty node cache) that takes
\* over the leaves and nextLeafIndex.
importState(state) ==
    [NewMerkleTree(state.depth) EXCEPT !.leaves = mapOf(state.leaves),
                                       !.nextLeafIndex = state.nextLeafIndex]

\* ----------------------------------------------------- MerkleTree as used
tree == merkleTree[1]

\* The strings handed to insert: "0", "1" and the decimal string of p + 1 (the
\* same field element as "1").
LeafStrings == {<<0>>, <<1>>, <<FieldP + 1>>}

\* A request field that is absent (undefined) is <<>>, a present one is <<v>>.
Missing == <<>>
NoPath == [pathElements |-> <<>>, pathIndices |-> <<>>]
NoRequest == [quoteId |-> Missing, priceCents |-> Missing]
NoResponse ==
    [success |-> FALSE, secret |-> <<>>, quoteId |-> Missing,
     priceCents |-> Missing, root |-> <<>>, merklePath |-> NoPath,
     error |-> "none"]
InitCallIds == 1..MaxInitCalls
ScanHandlers == 1..MaxScans
\* The response of POST /issue-with-zk: "none" while no call has returned.
NoIssue == [response |-> "none"]
\* The tickets table holds one unused ticket, with id 1.
NewTicketDb == (1 :> [isUsed |-> FALSE])
NoTicketProof == [shape |-> "none", statement |-> <<>>]
NoScan ==
    [pc |-> "idle", ticketId |-> 0, proof |-> NoTicketProof,
     publicSignals |-> <<>>, native |-> "notrun", proofValid |-> "none",
     response |-> "none"]
NoVerif ==
    [pc |-> "idle",
     request |-> [quoteId |-> Missing, priceCents |-> Missing, root |-> <<>>,
                  proof |-> [shape |-> "none", statement |-> <<>>],
                  publicSignals |-> <<>>],
     proofValid |-> "none",
     result |-> [valid |-> FALSE, error |-> "none"]]

\* The parts of the backend that take no part: no initialize call, no quote,
\* no issue call, no scan.
SideIdle ==
    /\ initCalls = [c \in InitCallIds |-> "idle"]
    /\ quotes = <<>>
    /\ issue = NoIssue
    /\ ticketsIssued = 0
    /\ verifierBuild = "strict"
    /\ ticketDb = NewTicketDb
    /\ scans = [h \in ScanHandlers |-> NoScan]

TreeInit ==
    /\ merkleTree = <<NewMerkleTree(Depth)>>
    /\ treeRet = [op |-> "new", arg |-> 0]
    /\ server = "library"
    /\ initialized = FALSE
    /\ verificationKey = "null"
    /\ payReq = NoRequest
    /\ payResp = NoResponse
    /\ payments = <<>>
    /\ verif = NoVerif
    /\ accepted = 0
    /\ latestAtCall = FALSE
    /\ SideIdle

TreeInsert(leaf) ==
    /\ server = "library"
    /\ tree.nextLeafIndex < MaxInserts
    /\ merkleTree' = <<insert(tree, leaf)>>
    /\ treeRet' = [op |-> "insert", arg |-> tree.nextLeafIndex]
    /\ UNCHANGED <<serviceVars, payVars, verifVars, sideVars>>

TreeGetRoot ==
    /\ server = "library"
    /\ merkleTree' = <<[tree EXCEPT !.nodes = getRoot(tree).nodes]>>
    /\ treeRet' = [op |-> "getRoot", arg |-> 0]
    /\ UNCHANGED <<serviceVars, payVars, verifVars, sideVars>>

TreeGetProof(i) ==
    /\ server = "library"
    /\ merkleTree' = <<[tree EXCEPT !.nodes = getProof(tree, i).nodes]>>
    /\ treeRet' = [op |-> "getProof", arg |-> i]
    /\ UNCHANGED <<serviceVars, payVars, verifVars, sideVars>>

TreeNext ==
    \/ \E leaf \in LeafStrings : TreeInsert(leaf)
    \/ TreeGetRoot
    \/ \E i \in 0..(tree.nextLeafIndex - 1) : TreeGetProof(i)

\* The MerkleTree class driven directly: inserts, root reads and proof reads
\* in any order.
SpecTree == TreeInit /\ [][TreeNext]_vars

\* --------------------------------------------------------- field encoding
\* stringToField: the bytes of the string, read as a big-endian base-256
\* integer, hashed with the single-input Poseidon.  A string is its sequence
\* of bytes here.
RECURSIVE bytesToBigInt(_, _, _)
bytesToBigInt(bytes, i, acc) ==
    IF i > Len(bytes) THEN acc
    ELSE bytesToBigInt(bytes, i + 1, acc * 256 + bytes[i])

stringToField(str) == poseidon1(<<bytesToBigInt(str, 1, 0)>>)

\* The quoteId encoded without the Poseidon hash.
quoteIdToField_noHash(quoteId) == <<bytesToBigInt(quoteId, 1, 0)>>

quoteIdToField(quoteId) == stringToField(quoteId)

\* isValidFieldElement: BigInt(value) parses ("" parses as 0) and
\* 0 <= n < p; a Poseidon output is in range.
isValidFieldElement(value) ==
    IF Len(value) = 0 THEN TRUE
    ELSE IF Len(value) = 1 THEN value[1] >= 0 /\ value[1] < FieldP
    ELSE TRUE

\* --------------------------------------------------------- PaymentService
\* A JavaScript number: <<n>> is the integer n, <<n, d>> the non-integer n.d.
IsInteger(num) == Len(num) = 1
\* Number.prototype.toString and BigInt(number) of an integer give its
\* decimal string.
NumberToString(num) == num

\* `!request.quoteId`: undefined and "" are falsy.
FalsyString(f) == f = Missing \/ Len(f[1]) = 0
\* `!request.priceCents`: undefined and 0 are falsy.
FalsyNumber(f) == f = Missing \/ f[1] = <<0>>

Failure(msg) == [NoResponse EXCEPT !.error = msg]

\* Lines 72-108 of processPayment: the secret is drawn, the commitment is
\* computed and inserted, the proof and the root are read.
paymentCommit(mt, request, secret) ==
    LET quoteIdField == quoteIdToField(request.quoteId[1])
        leaf == poseidon3(secret, quoteIdField,
                          NumberToString(request.priceCents[1]))
        leafIndex == mt[1].nextLeafIndex
        t1 == insert(mt[1], leaf)
        p == getProof(t1, leafIndex)
        t2 == [t1 EXCEPT !.nodes = p.nodes]
        r == getRoot(t2)
    IN  [response |->
            [success |-> TRUE, secret |-> secret,
             quoteId |-> request.quoteId,
             priceCents |-> request.priceCents,
             root |-> r.value, merklePath |-> MerklePath(p),
             error |-> "none"],
         tree |-> <<[t2 EXCEPT !.nodes = r.nodes]>>,
         leafIndex |-> leafIndex]

\* The validation made only after the commitment was inserted.
processPayment_validateLate(mt, init, request, secret) ==
    IF ~init \/ mt = <<>>
    THEN [response |-> Failure("Payment service not initialized"),
          tree |-> mt, leafIndex |-> -1]
    ELSE IF FalsyString(request.quoteId) \/ FalsyNumber(request.priceCents)
    THEN [response |-> Failure("Invalid payment request"),
          tree |-> mt, leafIndex |-> -1]
    ELSE IF ~IsInteger(request.priceCents[1])
    THEN [response |-> Failure("Payment processing failed"),
          tree |-> mt, leafIndex |-> -1]
    ELSE IF request.priceCents[1][1] <= 0
    THEN [response |-> Failure("Invalid payment request"),
          tree |-> paymentCommit(mt, request, secret).tree, leafIndex |-> -1]
    ELSE paymentCommit(mt, request, secret)

\* processPayment has no await: the whole body runs in one step.  The result
\* is the response, the tree afterwards and the index given to the leaf.
\* (Non-integer prices are taken above 1, so that the integer part decides
\* `priceCents <= 0`.)
processPayment(mt, init, request, secret) ==
    IF ~init \/ mt = <<>>
    THEN [response |-> Failure("Payment service not initialized"),
          tree |-> mt, leafIndex |-> -1]
    ELSE IF \/ FalsyString(request.quoteId)
            \/ FalsyNumber(request.priceCents)
            \/ request.priceCents[1][1] <= 0
    THEN [response |-> Failure("Invalid payment request"),
          tree |-> mt, leafIndex |-> -1]
    ELSE IF ~IsInteger(request.priceCents[1])
    THEN \* BigInt(1.5) throws a RangeError, caught by the handler
         [response |-> Failure("Payment processing failed"),
          tree |-> mt, leafIndex |-> -1]
    ELSE paymentCommit(mt, request, secret)

\* getCurrentRoot: the root and the cache afterwards; it throws without a tree.
getCurrentRoot(mt) ==
    IF mt = <<>> THEN [throws |-> TRUE, value |-> <<>>, tree |-> mt]
    ELSE LET r == getRoot(mt[1])
         IN  [throws |-> FALSE, value |-> r.value,
              tree |-> <<[mt[1] EXCEPT !.nodes = r.nodes]>>]

\* _generateSecret: 32 random bytes reduced modulo p, as a decimal string.
Secrets == {<<v>> : v \in 0..(FieldP - 1)}

\* ----------------------------------------------------------------- server
ServiceInit ==
    /\ merkleTree = <<>>
    /\ treeRet = [op |-> "new", arg |-> 0]
    /\ server = "starting"
    /\ initialized = FALSE
    /\ verificationKey \in {"vk", "null"}
    /\ payReq = NoRequest
    /\ payResp = NoResponse
    /\ payments = <<>>
    /\ verif = NoVerif
    /\ accepted = 0
    /\ latestAtCall = FALSE
    /\ SideIdle

\* start(): initializeFieldEncoding, paymentService.initialize (the only call
\* of it, before any request is served), seedDatabase, app.listen.
Start ==
    /\ server = "starting"
    /\ IF ~initialized
       THEN /\ merkleTree' = <<NewMerkleTree(Depth)>>
            /\ initialized' = TRUE
       ELSE UNCHANGED <<merkleTree, initialized>>
    /\ server' = "listening"
    /\ UNCHANGED <<treeRet, verificationKey, payVars, verifVars, sideVars>>

\* POST /api/payment/pay
PostPay(request, secret) ==
    /\ server = "listening"
    /\ LET out == processPayment(merkleTree, initialized, request, secret)
       IN  /\ merkleTree' = out.tree
           /\ payReq' = request
           /\ payResp' = out.response
           /\ payments' =
                IF out.response.success
                THEN Append(payments,
                            [leafIndex |-> out.leafIndex,
                             leaf |-> out.tree[1].leaves[out.leafIndex],
                             response |-> out.response])
                ELSE payments
    /\ UNCHANGED <<treeRet, serviceVars, verifVars, sideVars>>

\* GET /api/payment/root and GET /api/payment/stats
GetRootEndpoint ==
    /\ server = "listening"
    /\ merkleTree' = getCurrentRoot(merkleTree).tree
    /\ UNCHANGED <<treeRet, serviceVars, payVars, verifVars, sideVars>>

\* The /pay request bodies explored: two well-formed ones, and bodies whose
\* quoteId is missing or "" or whose priceCents is missing, 0, -1 or 1.5.
QuoteIds == {<<1>>, <<2>>}
GoodPayRequests ==
    {[quoteId |-> <<<<1>>>>, priceCents |-> <<<<1>>>>],
     [quoteId |-> <<<<2>>>>, priceCents |-> <<<<2>>>>]}
BadPayRequests ==
    [quoteId : {Missing, <<<<>>>>}, priceCents : {<<<<1>>>>}]
    \cup [quoteId : {<<<<1>>>>},
          priceCents : {Missing, <<<<0>>>>, <<<<-1>>>>, <<<<1, 5>>>>}]
PayRequests == GoodPayRequests \cup BadPayRequests
PaySecrets == {<<1>>, <<2>>}

PayNext ==
    \/ Start
    \/ /\ Len(payments) < MaxPayments
       /\ \E request \in PayRequests, secret \in PaySecrets :
              PostPay(request, secret)
    \/ GetRootEndpoint

\* The server with its payment endpoints.
Spec == ServiceInit /\ [][PayNext]_vars

\* ------------------------------------------------------------ zk-verifier
\* A proof artifact: its shape ("groth16" when it has the three curve points,
\* "malformed" otherwise) and the public signals it was generated for (<<>>
\* when it was generated for none, a forged proof).
\* snarkjs.groth16.verify(verificationKey, publicSignals, proof): true exactly
\* for a well-shaped proof presented with the signals it was generated for,
\* an exception for a malformed artifact.
groth16Verify(vk, publicSignals, proof) ==
    IF proof.shape # "groth16" THEN "throws"
    ELSE IF proof.statement # <<>> /\ proof.statement = publicSignals THEN "true"
    ELSE "false"

\* const [out_root, out_quoteId, out_price] = request.publicSignals: an entry
\* beyond the end of the array is undefined.
Signal(publicSignals, i) ==
    IF i <= Len(publicSignals) THEN <<publicSignals[i]>> ELSE Missing

\* new TextEncoder().encode(undefined) is the encoding of "".
EncodedQuoteId(f) == IF f = Missing THEN <<>> ELSE f[1]

Invalid(msg) == [valid |-> FALSE, error |-> msg]

\* The current-root comparison made before the signal comparisons.
verifyAfterAwait_rootFirst(request, proofValid, mt) ==
    IF proofValid = "throws" THEN [result |-> Invalid("Verification failed"), tree |-> mt]
    ELSE IF proofValid # "true"
    THEN [result |-> Invalid("Invalid cryptographic proof"), tree |-> mt]
    ELSE IF getCurrentRoot(mt).throws
    THEN [result |-> Invalid("Verification failed"), tree |-> mt]
    ELSE IF request.root # getCurrentRoot(mt).value
    THEN [result |-> Invalid("Root does not match current Payment Service root"),
          tree |-> getCurrentRoot(mt).tree]
    ELSE IF Signal(request.publicSignals, 1) # <<request.root>>
    THEN [result |-> Invalid("Root mismatch in public signals"),
          tree |-> getCurrentRoot(mt).tree]
    ELSE IF request.priceCents = Missing
    THEN [result |-> Invalid("Verification failed"), tree |-> getCurrentRoot(mt).tree]
    ELSE IF Signal(request.publicSignals, 3)
              # <<NumberToString(request.priceCents[1])>>
    THEN [result |-> Invalid("Price mismatch in public signals"),
          tree |-> getCurrentRoot(mt).tree]
    ELSE IF Signal(request.publicSignals, 2)
              # <<quoteIdToField(EncodedQuoteId(request.quoteId))>>
    THEN [result |-> Invalid("QuoteId mismatch in public signals"),
          tree |-> getCurrentRoot(mt).tree]
    ELSE [result |-> [valid |-> TRUE, error |-> "none"],
          tree |-> getCurrentRoot(mt).tree]

\* The price comparison left out.
verifyAfterAwait_noPrice(request, proofValid, mt) ==
    IF proofValid = "throws" THEN [result |-> Invalid("Verification failed"), tree |-> mt]
    ELSE IF proofValid # "true"
    THEN [result |-> Invalid("Invalid cryptographic proof"), tree |-> mt]
    ELSE IF Signal(request.publicSignals, 1) # <<request.root>>
    THEN [result |-> Invalid("Root mismatch in public signals"), tree |-> mt]
    ELSE IF Signal(request.publicSignals, 2)
              # <<quoteIdToField(EncodedQuoteId(request.quoteId))>>
    THEN [result |-> Invalid("QuoteId mismatch in public signals"), tree |-> mt]
    ELSE IF getCurrentRoot(mt).throws
    THEN [result |-> Invalid("Verification failed"), tree |-> mt]
    ELSE IF request.root # getCurrentRoot(mt).value
    THEN [result |-> Invalid("Root does not match current Payment Service root"),
          tree |-> getCurrentRoot(mt).tree]
    ELSE [result |-> [valid |-> TRUE, error |-> "none"],
          tree |-> getCurrentRoot(mt).tree]

\* The comparison with the current root left out.
verifyAfterAwait_noCurrentRoot(request, proofValid, mt) ==
    IF proofValid = "throws" THEN [result |-> Invalid("Verification failed"), tree |-> mt]
    ELSE IF proofValid # "true"
    THEN [result |-> Invalid("Invalid cryptographic proof"), tree |-> mt]
    ELSE IF Signal(request.publicSignals, 1) # <<request.root>>
    THEN [result |-> Invalid("Root mismatch in public signals"), tree |-> mt]
    ELSE IF request.priceCents = Missing
    THEN [result |-> Invalid("Verification failed"), tree |-> mt]
    ELSE IF Signal(request.publicSignals, 3)
              # <<NumberToString(request.priceCents[1])>>
    THEN [result |-> Invalid("Price mismatch in public signals"), tree |-> mt]
    ELSE IF Signal(request.publicSignals, 2)
              # <<quoteIdToField(EncodedQuoteId(request.quoteId))>>
    THEN [result |-> Invalid("QuoteId mismatch in public signals"), tree |-> mt]
    ELSE [result |-> [valid |-> TRUE, error |-> "none"], tree |-> mt]

\* verifyPaymentProof after `await snarkjs.groth16.verify(...)` has settled
\* with proofValid ("true", "false" or "throws"): the result and the tree
\* (getCurrentRoot fills the node cache).  Every exception reaches the catch.
verifyAfterAwait(request, proofValid, mt) ==
    IF proofValid = "throws" THEN [result |-> Invalid("Verification failed"), tree |-> mt]
    ELSE IF proofValid # "true"
    THEN [result |-> Invalid("Invalid cryptographic proof"), tree |-> mt]
    ELSE IF Signal(request.publicSignals, 1) # <<request.root>>
    THEN [result |-> Invalid("Root mismatch in public signals"), tree |-> mt]
    ELSE IF request.priceCents = Missing
    THEN \* undefined.toString() throws a TypeError
         [result |-> Invalid("Verification failed"), tree |-> mt]
    ELSE IF Signal(request.publicSignals, 3)
              # <<NumberToString(request.priceCents[1])>>
    THEN [result |-> Invalid("Price mismatch in public signals"), tree |-> mt]
    ELSE IF Signal(request.publicSignals, 2)
              # <<quoteIdToField(EncodedQuoteId(request.quoteId))>>
    THEN [result |-> Invalid("QuoteId mismatch in public signals"), tree |-> mt]
    ELSE IF getCurrentRoot(mt).throws
    THEN [result |-> Invalid("Verification failed"), tree |-> mt]
    ELSE IF request.root # getCurrentRoot(mt).value
    THEN [result |-> Invalid("Root does not match current Payment Service root"),
          tree |-> getCurrentRoot(mt).tree]
    ELSE [result |-> [valid |-> TRUE, error |-> "none"],
          tree |-> getCurrentRoot(mt).tree]

\* The request of an honest client for logged payment k: generatePaymentProof
\* run on the payment's response, and the proof submitted with the response's
\* quoteId, priceCents and root.
HonestRequest(k) ==
    LET resp == payments[k].response
        signals == <<resp.root, stringToField(resp.quoteId[1]),
                     NumberToString(resp.priceCents[1])>>
    IN  [quoteId |-> resp.quoteId, priceCents |-> resp.priceCents,
         root |-> resp.root,
         proof |-> [shape |-> "groth16", statement |-> signals],
         publicSignals |-> signals]

\* Whether the request is the honest one for the payment logged last.
HonestForLatest(request) ==
    Len(payments) >= 1 /\ request = HonestRequest(Len(payments))

\* verifyPaymentProof up to its await: without a key it returns at once,
\* otherwise the call is suspended on groth16.verify.
VerifyStart(request) ==
    /\ server = "listening"
    /\ verif.pc = "idle"
    /\ IF verificationKey = "null"
       THEN verif' = [pc |-> "done", request |-> request, proofValid |-> "none",
                      result |-> Invalid("Verification key not loaded")]
       ELSE verif' = [pc |-> "awaiting", request |-> request,
                      proofValid |-> "none", result |-> NoVerif.result]
    /\ accepted' = 0
    /\ latestAtCall' = HonestForLatest(request)
    /\ UNCHANGED <<merkleTree, treeRet, serviceVars, payVars, sideVars>>

\* groth16.verify settles and verifyPaymentProof runs to its return.
VerifyResume ==
    /\ verif.pc = "awaiting"
    /\ LET proofValid == groth16Verify(verificationKey,
                                       verif.request.publicSignals,
                                       verif.request.proof)
           out == verifyAfterAwait(verif.request, proofValid, merkleTree)
       IN  /\ verif' = [verif EXCEPT !.pc = "done", !.proofValid = proofValid,
                                     !.result = out.result]
           /\ merkleTree' = out.tree
           /\ accepted' = IF out.result.valid THEN accepted + 1 ELSE accepted
    /\ UNCHANGED <<treeRet, serviceVars, payVars, latestAtCall, sideVars>>

\* What a client can submit: the signals an honest prover derives for a
\* logged payment against a root that contains its leaf, signals with any
\* entry substituted, and proofs generated for honest signals, forged or
\* malformed.
KnownRoots == {payments[k].response.root : k \in 1..Len(payments)}
QuoteFields == {stringToField(q) : q \in QuoteIds}
PriceStrings == {<<1>>, <<2>>}
HonestStatements ==
    {<<payments[kj[2]].response.root,
       stringToField(payments[kj[1]].response.quoteId[1]),
       NumberToString(payments[kj[1]].response.priceCents[1])>> :
        kj \in {x \in (1..Len(payments)) \X (1..Len(payments)) : x[1] <= x[2]}}
SubmittedSignals ==
    {<<r, q, c>> : r \in KnownRoots, q \in QuoteFields, c \in PriceStrings}
    \cup {<<>>}
SubmittedProofs ==
    {[shape |-> "groth16", statement |-> st] : st \in HonestStatements}
    \cup {[shape |-> "groth16", statement |-> <<>>],
          [shape |-> "malformed", statement |-> <<>>]}
VerifyRequests ==
    [quoteId : {<<q>> : q \in QuoteIds},
     priceCents : {Missing, <<<<1>>>>, <<<<2>>>>},
     root : KnownRoots \cup {zeros(Depth)},
     proof : SubmittedProofs,
     publicSignals : SubmittedSignals]

VerifyNext ==
    \/ Start
    \/ /\ Len(payments) < MaxVerifyPayments
       /\ \E request \in GoodPayRequests : PostPay(request, <<1>>)
    \/ \E request \in VerifyRequests : VerifyStart(request)
    \/ VerifyResume

\* The server with payments and one proof verification.
SpecVerify == ServiceInit /\ [][VerifyNext]_vars

\* The same request with a proof that was generated for no statement.
ForgedRequest(k) ==
    [HonestRequest(k) EXCEPT !.proof = [shape |-> "groth16", statement |-> <<>>]]

\* Submissions of one accepted request explored.
MaxReplays == 2

\* verifyPaymentProof called once more with the request it has just accepted
\* (the same body posted again): the call keeps no record of earlier calls.
VerifyAgain ==
    /\ server = "listening"
    /\ verif.pc = "done"
    /\ verif.result.valid
    /\ accepted < MaxReplays
    /\ IF verificationKey = "null"
       THEN verif' = [verif EXCEPT !.proofValid = "none",
                         !.result = Invalid("Verification key not loaded")]
       ELSE verif' = [verif EXCEPT !.pc = "awaiting", !.proofValid = "none",
                                   !.result = NoVerif.result]
    /\ latestAtCall' = HonestForLatest(verif.request)
    /\ UNCHANGED <<merkleTree, treeRet, serviceVars, payVars, accepted,
                   sideVars>>

ReplayNext ==
    \/ Start
    \/ /\ Len(payments) < MaxVerifyPayments
       /\ \E request \in GoodPayRequests, secret \in PaySecrets :
              PostPay(request, secret)
    \/ \E k \in 1..Len(payments) :
          VerifyStart(HonestRequest(k)) \/ VerifyStart(ForgedRequest(k))
    \/ VerifyResume
    \/ VerifyAgain

\* The server with payments and a client that posts its request again.
SpecReplay == ServiceInit /\ [][ReplayNext]_vars

\* ------------------------------------------- PaymentService.initialize
\* initialize up to its first await: the flag is tested, and when it is
\* not set the call is suspended on MerkleTree.initialize().
InitializeCall(c) ==
    /\ initCalls[c] = "idle"
    /\ initCalls' = [initCalls EXCEPT ![c] =
                        IF ~initialized THEN "awaitMerkleTree" ELSE "done"]
    /\ UNCHANGED <<merkleTree, treeRet, serviceVars, payVars, verifVars,
                   issueVars, scanVars>>

\* MerkleTree.initialize() has resolved; the call is suspended on
\* buildPoseidon().
InitializePoseidon(c) ==
    /\ initCalls[c] = "awaitMerkleTree"
    /\ initCalls' = [initCalls EXCEPT ![c] = "awaitPoseidon"]
    /\ UNCHANGED <<merkleTree, treeRet, serviceVars, payVars, verifVars,
                   issueVars, scanVars>>

\* buildPoseidon() has resolved: the tree is created and the flag set,
\* without the flag being tested again.
InitializeFinish(c) ==
    /\ initCalls[c] = "awaitPoseidon"
    /\ merkleTree' = <<NewMerkleTree(Depth)>>
    /\ initialized' = TRUE
    /\ initCalls' = [initCalls EXCEPT ![c] = "done"]
    /\ UNCHANGED <<treeRet, server, verificationKey, payVars, verifVars,
                   issueVars, scanVars>>

\* The payment service with its endpoint reachable and initialize called
\* by its clients, possibly more than once.
InitializeInit ==
    /\ merkleTree = <<>>
    /\ treeRet = [op |-> "new", arg |-> 0]
    /\ server = "listening"
    /\ initialized = FALSE
    /\ verificationKey = "vk"
    /\ payReq = NoRequest
    /\ payResp = NoResponse
    /\ payments = <<>>
    /\ verif = NoVerif
    /\ accepted = 0
    /\ latestAtCall = FALSE
    /\ SideIdle

InitializeNext ==
    \/ \E c \in InitCallIds : InitializeCall(c)
    \/ \E c \in InitCallIds : InitializePoseidon(c)
    \/ \E c \in InitCallIds : InitializeFinish(c)
    \/ /\ Len(payments) < MaxVerifyPayments
       /\ \E request \in GoodPayRequests, secret \in PaySecrets :
              PostPay(request, secret)

SpecInitialize == InitializeInit /\ [][InitializeNext]_vars

\* ------------------------------------------ POST /api/tickets/issue-with-zk
\* The quotes map as a log of the quotes created (each under a fresh uuid):
\* stored is whether the entry is still in the map.
\* ticketService.getQuote: the stored quote under the id, <<>> for undefined.
getQuote(qs, quoteId) ==
    LET hits == {i \in 1..Len(qs) : qs[i].stored /\ <<qs[i].quoteId>> = quoteId}
    IN  IF hits = {} THEN <<>> ELSE <<qs[CHOOSE i \in hits : TRUE]>>

\* The handler after `await verifyPaymentProof`, without the price check.
issueAfterVerify_noPrice(result, request, qs, signs) ==
    IF ~result.valid THEN "400 Invalid ZK proof"
    ELSE IF getQuote(qs, request.quoteId) = <<>>
    THEN "404 Quote not found or expired"
    ELSE IF ~signs THEN "500" ELSE "ticket"

\* The handler after `await verifyPaymentProof`: the response.  signs is
\* whether createTicketClaims and jwt.sign return rather than throw.
issueAfterVerify(result, request, qs, signs) ==
    IF ~result.valid THEN "400 Invalid ZK proof"
    ELSE IF getQuote(qs, request.quoteId) = <<>>
    THEN "404 Quote not found or expired"
    ELSE IF <<getQuote(qs, request.quoteId)[1].priceCents>> # request.priceCents
    THEN "400 Price mismatch with quote"
    ELSE IF ~signs THEN "500" ELSE "ticket"

\* ticketService.createQuote: a quote under a fresh id, at the route's price.
CreateQuote(q, price) ==
    /\ server = "listening"
    /\ \A i \in 1..Len(quotes) : quotes[i].quoteId # q
    /\ quotes' = Append(quotes,
                        [quoteId |-> q, priceCents |-> price, stored |-> TRUE])
    /\ UNCHANGED <<merkleTree, treeRet, serviceVars, payVars, verifVars,
                   initCalls, issue, ticketsIssued, scanVars>>

\* The timer set by createQuote deletes the quote after an hour.
ExpireQuote(i) ==
    /\ i \in 1..Len(quotes)
    /\ quotes[i].stored
    /\ quotes' = [quotes EXCEPT ![i].stored = FALSE]
    /\ UNCHANGED <<merkleTree, treeRet, serviceVars, payVars, verifVars,
                   initCalls, issue, ticketsIssued, scanVars>>

\* The handler up to `await verifyPaymentProof`, which is suspended on
\* groth16.verify or, without a key, has returned invalid at once.
IssueStart(request) ==
    /\ server = "listening"
    /\ verif.pc = "idle"
    /\ issue = NoIssue
    /\ IF verificationKey = "null"
       THEN /\ verif' = [pc |-> "done", request |-> request,
                         proofValid |-> "none",
                         result |-> Invalid("Verification key not loaded")]
            /\ issue' = [response |->
                           issueAfterVerify(verif'.result, request, quotes, TRUE)]
       ELSE /\ verif' = [pc |-> "awaiting", request |-> request,
                         proofValid |-> "none", result |-> NoVerif.result]
            /\ issue' = issue
    /\ accepted' = 0
    /\ latestAtCall' = HonestForLatest(request)
    /\ UNCHANGED <<merkleTree, treeRet, serviceVars, payVars, initCalls,
                   quotes, ticketsIssued, scanVars>>

\* groth16.verify settles, verifyPaymentProof returns and the handler runs
\* to its response.
IssueResume(signs) ==
    /\ verif.pc = "awaiting"
    /\ issue = NoIssue
    /\ LET proofValid == groth16Verify(verificationKey,
                                       verif.request.publicSignals,
                                       verif.request.proof)
           out == verifyAfterAwait(verif.request, proofValid, merkleTree)
           response == issueAfterVerify(out.result, verif.request, quotes, signs)
       IN  /\ verif' = [verif EXCEPT !.pc = "done", !.proofValid = proofValid,
                                     !.result = out.result]
           /\ merkleTree' = out.tree
           /\ accepted' = IF out.result.valid THEN accepted + 1 ELSE accepted
           /\ issue' = [response |-> response]
           /\ ticketsIssued' = IF response = "ticket" THEN ticketsIssued + 1
                                ELSE ticketsIssued
    /\ UNCHANGED <<treeRet, serviceVars, payVars, latestAtCall, initCalls,
                   quotes, scanVars>>

\* The prices of the routes quoted.
QuotePrices == {<<1>>, <<2>>}

IssueNext ==
    \/ Start
    \/ /\ Len(payments) < MaxVerifyPayments
       /\ \E request \in GoodPayRequests : PostPay(request, <<1>>)
    \/ \E q \in QuoteIds, price \in QuotePrices : CreateQuote(q, price)
    \/ \E i \in 1..Len(quotes) : ExpireQuote(i)
    \/ \E k \in 1..Len(payments) :
          IssueStart(HonestRequest(k)) \/ IssueStart(ForgedRequest(k))
    \/ \E signs \in BOOLEAN : IssueResume(signs)

\* The server with quotes, payments and one issue-with-zk request.
SpecIssue == ServiceInit /\ [][IssueNext]_vars

\* ----------------------------------------------------- POST /api/verify
\* A ticket proof artifact: shape "groth16" (curve points), "garbage" (the
\* arrays and tags are there, the strings are no curve points), "malformed"
\* (a component is missing); statement as for payment proofs.
\* groth16.verify as called by verifyTicketProof.  With the mock key of the
\* second version the call fails one way or the other.
NativeOutcomes(key, publicSignals, proof) ==
    IF key = "mock" THEN {"false", "throws"}
    ELSE {groth16Verify(key, publicSignals, proof)}

\* The key verifyTicketProof verifies with: the file's content, the mock key
\* of the second version when the file is missing.
TicketKey(build, keyFile) ==
    IF keyFile # "null" THEN keyFile
    ELSE IF build = "fallback" THEN "mock" ELSE "null"

\* verifyTicketProof, given what groth16.verify does if it is reached:
\* native is what the native verification returned ("notrun" when it was
\* not reached), result is "true", "false" or "throws".  (Every public
\* signal explored is a numeric string.)
verifyTicketProof(build, keyFile, proof, publicSignals, outcome) ==
    IF build = "strict" /\ keyFile = "null"
    THEN [native |-> "notrun", result |-> "throws"]
    ELSE IF proof.shape = "none" \/ Len(publicSignals) # 4
    THEN [native |-> "notrun", result |-> "false"]
    ELSE IF proof.shape = "malformed"
    THEN [native |-> "notrun", result |-> "false"]
    ELSE IF outcome # "throws"
    THEN [native |-> outcome, result |-> outcome]
    ELSE IF build = "strict"
    THEN [native |-> "throws", result |-> "throws"]
    ELSE \* the catch block: arrays of length 3, the two tags, 4 numeric signals
         [native |-> "throws",
          result |-> IF proof.shape \in {"groth16", "garbage"}
                        /\ Len(publicSignals) = 4
                     THEN "true" ELSE "false"]

\* The handler up to `await db.select`: the body is validated with the zod
\* schema (a proof with its five members, at least one signal).
ScanStart(h, ticketId, proof, publicSignals) ==
    /\ server = "listening"
    /\ scans[h].pc = "idle"
    /\ scans' = [scans EXCEPT ![h] =
          IF proof.shape \notin {"groth16", "garbage"} \/ Len(publicSignals) < 1
          THEN [NoScan EXCEPT !.pc = "done", !.ticketId = ticketId,
                             !.proof = proof, !.publicSignals = publicSignals,
                             !.response = "400 Invalid request data"]
          ELSE [NoScan EXCEPT !.pc = "selecting", !.ticketId = ticketId,
                             !.proof = proof, !.publicSignals = publicSignals]]
    /\ UNCHANGED <<merkleTree, treeRet, serviceVars, payVars, verifVars,
                   initCalls, issueVars, verifierBuild, ticketDb>>

\* The select has returned the row as it is now; the handler runs up to
\* `await verifyTicketProof`.  inPeriod: the clock is within the validity
\* period.
ScanSelected(h, inPeriod) ==
    /\ scans[h].pc = "selecting"
    /\ scans' = [scans EXCEPT ![h] =
          IF scans[h].ticketId \notin DOMAIN ticketDb
          THEN [@ EXCEPT !.pc = "done", !.response = "404 Ticket not found"]
          ELSE IF ticketDb[scans[h].ticketId].isUsed
          THEN [@ EXCEPT !.pc = "done",
                         !.response = "Ticket has already been used"]
          ELSE IF ~inPeriod
          THEN [@ EXCEPT !.pc = "done",
                         !.response = "Ticket is not valid for current date/time"]
          ELSE [@ EXCEPT !.pc = "verifying"]]
    /\ UNCHANGED <<merkleTree, treeRet, serviceVars, payVars, verifVars,
                   initCalls, issueVars, verifierBuild, ticketDb>>

\* verifyTicketProof has settled; the handler runs up to `await db.update`.
ScanVerified(h, outcome) ==
    /\ scans[h].pc = "verifying"
    /\ outcome \in NativeOutcomes(TicketKey(verifierBuild, verificationKey),
                                  scans[h].publicSignals, scans[h].proof)
    /\ LET out == verifyTicketProof(verifierBuild, verificationKey,
                                    scans[h].proof, scans[h].publicSignals,
                                    outcome)
       IN  scans' = [scans EXCEPT ![h] =
             IF out.result = "throws"
             THEN [@ EXCEPT !.pc = "done", !.native = out.native,
                            !.proofValid = out.result,
                            !.response = "500 Failed to verify ticket"]
             ELSE IF out.result = "false"
             THEN [@ EXCEPT !.pc = "done", !.native = out.native,
                            !.proofValid = out.result,
                            !.response = "Invalid proof"]
             ELSE [@ EXCEPT !.pc = "updating", !.native = out.native,
                            !.proofValid = out.result]]
    /\ UNCHANGED <<merkleTree, treeRet, serviceVars, payVars, verifVars,
                   initCalls, issueVars, verifierBuild, ticketDb>>

\* The update has marked the ticket used; the handler answers valid: true.
ScanUpdated(h) ==
    /\ scans[h].pc = "updating"
    /\ ticketDb' = [ticketDb EXCEPT ![scans[h].ticketId].isUsed = TRUE]
    /\ scans' = [scans EXCEPT ![h].pc = "done", ![h].response = "valid"]
    /\ UNCHANGED <<merkleTree, treeRet, serviceVars, payVars, verifVars,
                   initCalls, issueVars, verifierBuild>>

\* The bodies posted: the ticket's own proof and signals, the same for an
\* unknown ticket id, a proof of garbage points, a proof without its
\* members, and the ticket's proof with only three signals.
TicketSignals == <<<<1>>, <<1>>, <<1>>, <<2>>>>
TicketProof == [shape |-> "groth16", statement |-> TicketSignals]
ScanRequests ==
    {[ticketId |-> 1, proof |-> TicketProof, publicSignals |-> TicketSignals],
     [ticketId |-> 2, proof |-> TicketProof, publicSignals |-> TicketSignals],
     [ticketId |-> 1, proof |-> [shape |-> "garbage", statement |-> <<>>],
      publicSignals |-> TicketSignals],
     [ticketId |-> 1, proof |-> [shape |-> "malformed", statement |-> <<>>],
      publicSignals |-> TicketSignals],
     [ticketId |-> 1, proof |-> TicketProof,
      publicSignals |-> SubSeq(TicketSignals, 1, 3)]}

\* The server with either version of verifyTicketProof, the key file there
\* or not.
ScanInit ==
    /\ merkleTree = <<>>
    /\ treeRet = [op |-> "new", arg |-> 0]
    /\ server = "starting"
    /\ initialized = FALSE
    /\ verificationKey \in {"vk", "null"}
    /\ payReq = NoRequest
    /\ payResp = NoResponse
    /\ payments = <<>>
    /\ verif = NoVerif
    /\ accepted = 0
    /\ latestAtCall = FALSE
    /\ initCalls = [c \in InitCallIds |-> "idle"]
    /\ quotes = <<>>
    /\ issue = NoIssue
    /\ ticketsIssued = 0
    /\ verifierBuild \in {"strict", "fallback"}
    /\ ticketDb = NewTicketDb
    /\ scans = [h \in ScanHandlers |-> NoScan]

ScanNext ==
    \/ Start
    \/ \E h \in ScanHandlers, r \in ScanRequests :
          ScanStart(h, r.ticketId, r.proof, r.publicSignals)
    \/ \E h \in ScanHandlers, inPeriod \in BOOLEAN : ScanSelected(h, inPeriod)
    \/ \E h \in ScanHandlers, outcome \in {"true", "false", "throws"} :
          ScanVerified(h, outcome)
    \/ \E h \in ScanHandlers : ScanUpdated(h)

SpecScan == ScanInit /\ [][ScanNext]_vars

\* ------------------------------------------------------------ tree claims
\* The root computed from the leaf sequence alone: every node of the full
\* binary tree of the given depth is hashed, an absent leaf being "0".
RECURSIVE FullNode(_, _, _)
FullNode(lv, level, index) ==
    IF level = 0 THEN (IF index \in DOMAIN lv THEN lv[index] ELSE <<0>>)
    ELSE poseidon2Sync(FullNode(lv, level - 1, 2 * index),
                       FullNode(lv, level - 1, 2 * index + 1))

RootFromScratch(lv, depth) == FullNode(lv, depth, 0)

\* C1: whatever inserts, getRoot and getProof calls came before, and whatever
\* the node cache holds, getRoot() is the root recomputed without any cache
\* from the ordered leaves and the depth (so equal leaf sequences give equal
\* roots and a repeated getRoot() returns the same value).
C1_RootIsFunctionOfLeaves ==
    /\ getRoot(tree).value = RootFromScratch(tree.leaves, tree.depth)
    /\ getRoot([tree EXCEPT !.nodes = getRoot(tree).nodes]).value
         = getRoot(tree).value

\* An insert has just run on a tree whose cache kept entries of earlier reads.
C1_Witness ==
    /\ treeRet.op = "insert"
    /\ tree.nextLeafIndex >= 3
    /\ DOMAIN tree.nodes # {}

\* The triple (getLeaf(i), getProof(i), getRoot()), the calls made in this
\* order on the live tree.
ProofTriple(t, i) ==
    LET p == getProof(t, i)
    IN  [leaf |-> getLeaf(t, i),
         path |-> MerklePath(p),
         root |-> getRoot([t EXCEPT !.nodes = p.nodes]).value]

ProofTriples(t) == {ProofTriple(t, i) : i \in 0..(leafCount(t) - 1)}

Verifies(tr) == verifyProof(tr.leaf, tr.path, tr.root)

\* C2: in every reachable tree state every index below leafCount has a proof
\* that verifies against the current root.
C2_ProofRoundTrip == \A tr \in ProofTriples(tree) : Verifies(tr)

\* Values put in the place of a leaf, a root or a path element, and numbers
\* put in the place of a direction.
TamperStrings ==
    LeafStrings \cup {<<>>, <<2>>, zeros(1), poseidon2Sync(<<1>>, <<0>>)}
TamperIndices == {0, 1, 2}

SetElement(path, k, v) == [path EXCEPT !.pathElements[k] = v]
SetIndex(path, k, b) == [path EXCEPT !.pathIndices[k] = b]

\* Every triple that differs from tr in exactly one place.
Tampered(tr) ==
    {[tr EXCEPT !.leaf = v] : v \in TamperStrings \ {tr.leaf}}
    \cup {[tr EXCEPT !.root = v] : v \in TamperStrings \ {tr.root}}
    \cup UNION {{[tr EXCEPT !.path = SetElement(tr.path, k, v)] :
                    v \in TamperStrings \ {tr.path.pathElements[k]}} :
                 k \in 1..Len(tr.path.pathElements)}
    \cup UNION {{[tr EXCEPT !.path = SetIndex(tr.path, k, b)] :
                    b \in TamperIndices \ {tr.path.pathIndices[k]}} :
                 k \in 1..Len(tr.path.pathIndices)}

\* C3 as stated: replacing one of the leaf, the root, one path element or one
\* direction of a triple read from the tree by a different value makes
\* verifyProof return false.
C3_AnyTamperRejected ==
    \A tr \in ProofTriples(tree) : \A m \in Tampered(tr) : ~Verifies(m)

\* The hash verifyProof holds when it reaches path entry k.
RECURSIVE HashBefore(_, _, _)
HashBefore(leaf, path, k) ==
    IF k = 1 THEN leaf
    ELSE LET h == HashBefore(leaf, path, k - 1)
         IN  IF path.pathIndices[k - 1] # 0
             THEN poseidon2Sync(path.pathElements[k - 1], h)
             ELSE poseidon2Sync(h, path.pathElements[k - 1])

\* The replacements that change what is hashed or compared: a root that is
\* another string, a leaf or a path element that is another field element, a
\* direction that turns left into right or back where the two inputs of that
\* level are different field elements.
TamperedEffectively(tr) ==
    {[tr EXCEPT !.leaf = v] :
        v \in {w \in TamperStrings : FieldOf(w) # FieldOf(tr.leaf)}}
    \cup {[tr EXCEPT !.root = v] : v \in TamperStrings \ {tr.root}}
    \cup UNION {{[tr EXCEPT !.path = SetElement(tr.path, k, v)] :
                    v \in {w \in TamperStrings :
                             FieldOf(w) # FieldOf(tr.path.pathElements[k])}} :
                 k \in 1..Len(tr.path.pathElements)}
    \cup UNION {{[tr EXCEPT !.path = SetIndex(tr.path, k, b)] :
                    b \in {c \in TamperIndices :
                             /\ (c # 0) # (tr.path.pathIndices[k] # 0)
                             /\ FieldOf(tr.path.pathElements[k])
                                  # FieldOf(HashBefore(tr.leaf, tr.path, k))}} :
                 k \in 1..Len(tr.path.pathIndices)}

\* C3 amended: in a triple read from the tree that verifies, a replacement
\* that changes a hashed field element, the compared root string or the
\* order of two different inputs makes verifyProof return false.
C3_EffectiveTamperRejected ==
    \A tr \in ProofTriples(tree) :
        Verifies(tr) => \A m \in TamperedEffectively(tr) : ~Verifies(m)

\* A verifying triple of a right-hand leaf whose sibling is a different field
\* element, so that every kind of replacement has a case.
C3_Witness ==
    \E tr \in ProofTriples(tree) :
        /\ Verifies(tr)
        /\ tr.path.pathIndices[1] = 1
        /\ FieldOf(tr.path.pathElements[1]) # FieldOf(tr.leaf)
        /\ \E m \in TamperedEffectively(tr) : m.path.pathIndices # tr.path.pathIndices

\* ----------------------------------------------------- payment claims
\* The commitment a successful response stands for.
LeafOf(resp) ==
    poseidon3(resp.secret, stringToField(resp.quoteId[1]),
              NumberToString(resp.priceCents[1]))

\* C4: every successful processPayment returns a path that verifies its own
\* commitment against the returned root, and that root is the root of the
\* accumulator right after this payment's insertion.
C4_ConsistentPair ==
    payResp.success =>
        /\ verifyProof(LeafOf(payResp), payResp.merklePath, payResp.root)
        /\ payResp.root = RootFromScratch(tree.leaves, tree.depth)

\* The leaves of the first b logged payments, in the order of the log.
LoggedLeaves(b) == [i \in 0..(b - 1) |-> payments[i + 1].leaf]

C9_CapacityEnforced ==
    merkleTree # <<>> =>
        /\ leafCount(tree) <= Pow2(tree.depth)
        /\ DOMAIN tree.leaves \subseteq 0..(Pow2(tree.depth) - 1)
        /\ \A k \in 1..Len(payments) : payments[k].leafIndex < Pow2(tree.depth)

\* `!quoteId || !priceCents || priceCents <= 0` as the claim words it.
InvalidPayRequest(request) ==
    \/ request.quoteId = Missing
    \/ request.quoteId = <<<<>>>>
    \/ request.priceCents = Missing
    \/ request.priceCents[1][1] <= 0

\* C10: a request with an empty or missing quoteId or a missing, zero or
\* negative priceCents is answered with a failure, and a call answered with
\* success: false leaves the leaves, the leaf count and the root as they were.
C10_FailureInsertsNothing ==
    [][ /\ InvalidPayRequest(payReq') => ~payResp'.success
        /\ (merkleTree # <<>> /\ ~payResp'.success) =>
              /\ tree'.leaves = tree.leaves
              /\ leafCount(tree') = leafCount(tree)
              /\ getRoot(tree').value = getRoot(tree).value ]_vars

\* A request with a negative price was refused on a tree that holds leaves.
C10_Witness ==
    /\ payReq.priceCents = <<<<-1>>>>
    /\ payResp.error = "Invalid payment request"
    /\ merkleTree # <<>>
    /\ leafCount(tree) >= 2

\* ------------------------------------------------------- verifier claims
\* A step in which verifyPaymentProof returns.
VerifyReturns == verif.pc # "done" /\ verif'.pc = "done"

\* The accumulator root when the result is produced.
RootAtReturn == IF merkleTree' = <<>> THEN <<>> ELSE getRoot(tree').value

\* C6: verifyPaymentProof returns valid: true only if the native verification
\* returned true, publicSignals[0] is the request's root, publicSignals[2]
\* the decimal string of its priceCents, publicSignals[1] the field encoding
\* of its quoteId, and its root the accumulator's current root; an exception
\* in any step yields valid: false.
C6_ValidOnlyIfAllChecks ==
    [][ VerifyReturns =>
          LET req == verif'.request
              native == groth16Verify(verificationKey, req.publicSignals, req.proof)
          IN  /\ verif'.result.valid =>
                    /\ verificationKey = "vk"
                    /\ native = "true"
                    /\ Len(req.publicSignals) >= 3
                    /\ req.publicSignals[1] = req.root
                    /\ req.priceCents # Missing
                    /\ req.publicSignals[3] = NumberToString(req.priceCents[1])
                    /\ req.publicSignals[2] = stringToField(req.quoteId[1])
                    /\ req.root = RootAtReturn
              /\ (native = "throws" \/ req.priceCents = Missing)
                    => ~verif'.result.valid ]_vars

\* A request was accepted after two payments.
C6_Witness ==
    /\ verif.pc = "done"
    /\ verif.result.valid
    /\ Len(payments) = 2

\* The request passes the native verification and the three signal bindings.
PassesBindings(req) ==
    /\ groth16Verify(verificationKey, req.publicSignals, req.proof) = "true"
    /\ req.priceCents # Missing
    /\ req.publicSignals
         = <<req.root, stringToField(req.quoteId[1]),
             NumberToString(req.priceCents[1])>>

StaleRootResult == Invalid("Root does not match current Payment Service root")

\* C7: a proof built against the root returned by a payment, submitted with
\* that root after a later payment has advanced the accumulator root, is
\* rejected with the stale-root reason although the native verification and
\* the three bindings pass.
C7_StaleRootRejected ==
    [][ ( /\ VerifyReturns
          /\ verificationKey = "vk"
          /\ PassesBindings(verif'.request)
          /\ \E k \in 1..(Len(payments') - 1) :
                payments'[k].response.root = verif'.request.root
          /\ RootAtReturn # verif'.request.root )
        => verif'.result = StaleRootResult ]_vars

\* An honest proof for the first payment's root was refused as stale after a
\* second payment.
C7_Witness ==
    /\ verif.pc = "done"
    /\ verif.result = StaleRootResult
    /\ Len(payments) = 2
    /\ verif.request.root = payments[1].response.root
    /\ PassesBindings(verif.request)

\* The five checks in the order of the claim, each "pass", "fail" or "throws".
CheckOutcomes(req, currentRoot) ==
    LET native == groth16Verify(verificationKey, req.publicSignals, req.proof)
    IN  << IF native = "true" THEN "pass"
           ELSE IF native = "false" THEN "fail" ELSE "throws",
           IF Signal(req.publicSignals, 1) = <<req.root>> THEN "pass" ELSE "fail",
           IF req.priceCents = Missing THEN "throws"
           ELSE IF Signal(req.publicSignals, 3) = <<NumberToString(req.priceCents[1])>>
                THEN "pass" ELSE "fail",
           IF Signal(req.publicSignals, 2) = <<stringToField(EncodedQuoteId(req.quoteId))>>
           THEN "pass" ELSE "fail",
           IF currentRoot = <<>> THEN "throws"
           ELSE IF req.root = currentRoot THEN "pass" ELSE "fail" >>

CheckReasons ==
    << "Invalid cryptographic proof",
       "Root mismatch in public signals",
       "Price mismatch in public signals",
       "QuoteId mismatch in public signals",
       "Root does not match current Payment Service root" >>

\* The result the claim describes: the reason of the first check that does
\* not pass, the catch-all reason when that check threw.
FirstFailure(outcomes) ==
    LET bad == {i \in 1..5 : outcomes[i] # "pass"}
    IN  IF bad = {} THEN [valid |-> TRUE, error |-> "none"]
        ELSE LET first == CHOOSE i \in bad : \A j \in bad : i <= j
             IN  IF outcomes[first] = "fail" THEN Invalid(CheckReasons[first])
                 ELSE Invalid("Verification failed")

\* C8: with the key loaded, verifyPaymentProof reports the reason of the first
\* failing check in the order native verification, root signal, price signal,
\* quoteId signal, current root; the five reasons are pairwise distinct.
C8_FirstFailureReported ==
    [][ (VerifyReturns /\ verificationKey = "vk") =>
          /\ verif'.result = FirstFailure(CheckOutcomes(verif'.request, RootAtReturn))
          /\ Cardinality({CheckReasons[i] : i \in 1..5}) = 5 ]_vars

\* A request with a mismatched price and a stale root was refused for its
\* price.
C8_Witness ==
    /\ verif.pc = "done"
    /\ verif.result = Invalid("Price mismatch in public signals")
    /\ Len(payments) = 2
    /\ verif.request.root = payments[1].response.root
    /\ verif.request.root # payments[2].response.root

\* ------------------------------------------------- tree claims, continued
\* A step in which insert has run: only insert records itself in treeRet.
InsertReturns == treeRet'.op = "insert" /\ treeRet' # treeRet

\* C11: insert returns the leaf count of the tree it is called on, the leaf
\* count afterwards is that index plus one, the indices in use are exactly
\* 0 .. leafCount - 1, an insert that follows an insert returns the next
\* index, and a read leaves the leaf count as it was.
C11_InsertionMonotone ==
    [][ /\ InsertReturns =>
              /\ treeRet'.arg = leafCount(tree)
              /\ leafCount(tree') = treeRet'.arg + 1
              /\ DOMAIN tree'.leaves = 0..treeRet'.arg
              /\ treeRet.op = "insert" => treeRet'.arg = treeRet.arg + 1
        /\ ~InsertReturns => leafCount(tree') = leafCount(tree) ]_vars

\* The fourth insert has returned index 3.
C11_Witness ==
    /\ treeRet = [op |-> "insert", arg |-> 3]
    /\ leafCount(tree) = 4
    /\ DOMAIN tree.leaves = 0..3

\* C12: the leaf stored by insert at the returned index is what getLeaf
\* returns for that index, and every step (insert, getRoot, getProof) leaves
\* every stored leaf and what getLeaf returns for it as they were.
C12_LeavesAppendOnly ==
    [][ /\ \A k \in DOMAIN tree.leaves :
              /\ k \in DOMAIN tree'.leaves
              /\ tree'.leaves[k] = tree.leaves[k]
              /\ getLeaf(tree', k) = getLeaf(tree, k)
        /\ InsertReturns =>
              /\ treeRet'.arg \notin DOMAIN tree.leaves
              /\ treeRet'.arg \in DOMAIN tree'.leaves
              /\ getLeaf(tree', treeRet'.arg) = tree'.leaves[treeRet'.arg] ]_vars

\* A tree with three different leaf strings, read after the last insert.
C12_Witness ==
    /\ treeRet.op = "getProof"
    /\ leafCount(tree) >= 3
    /\ {getLeaf(tree, k) : k \in DOMAIN tree.leaves} = LeafStrings

\* C13: the tree rebuilt from exportState() has the depth, leaf count,
\* leaves, root and proofs of the live tree, and after the same further
\* insert the two roots are still equal.
C13_ExportImportRoundTrip ==
    LET copy == importState(exportState(tree))
    IN  /\ copy.depth = tree.depth
        /\ leafCount(copy) = leafCount(tree)
        /\ copy.leaves = tree.leaves
        /\ \A i \in 0..(leafCount(tree) - 1) : getLeaf(copy, i) = getLeaf(tree, i)
        /\ getRoot(copy).value = getRoot(tree).value
        /\ \A i \in 0..(leafCount(tree) - 1) :
              MerklePath(getProof(copy, i)) = MerklePath(getProof(tree, i))
        /\ \A leaf \in LeafStrings :
              getRoot(insert(copy, leaf)).value = getRoot(insert(tree, leaf)).value

\* A tree with leaves and cached nodes: the copy starts with an empty cache.
C13_Witness ==
    /\ leafCount(tree) >= 3
    /\ DOMAIN tree.nodes # {}
    /\ importState(exportState(tree)).nodes # tree.nodes
    /\ Len(exportState(tree).leaves) >= 3

\* C14: no leaf outside 0 .. p-1 is stored by insert, and verifyProof
\* accepts no such value as the leaf of a proof.
C14_OutOfRangeRejected ==
    /\ \A k \in DOMAIN tree.leaves : isValidFieldElement(tree.leaves[k])
    /\ \A tr \in ProofTriples(tree) : \A v \in LeafStrings :
          ~isValidFieldElement(v) => ~verifyProof(v, tr.path, tr.root)

\* C19 as stated: the root after an insert differs from the root before it.
C19_RootChangesOnInsert ==
    [][ InsertReturns => getRoot(tree').value # getRoot(tree).value ]_vars

\* C19 amended: an insert at an index below 2^depth changes the root exactly
\* when the leaf is not the field element 0 (the value of an empty leaf).
C19_RootChangesUnlessZeroLeaf ==
    [][ (InsertReturns /\ treeRet'.arg < Pow2(tree.depth)) =>
          ( getRoot(tree').value # getRoot(tree).value
              <=> FieldOf(tree'.leaves[treeRet'.arg]) # zeros(0) ) ]_vars

\* An insert has just run on a tree that holds a zero leaf and a non-zero
\* leaf and has cached nodes.
C19_Witness ==
    /\ treeRet.op = "insert"
    /\ leafCount(tree) <= Pow2(tree.depth)
    /\ \E k \in DOMAIN tree.leaves : FieldOf(tree.leaves[k]) = zeros(0)
    /\ \E k \in DOMAIN tree.leaves : FieldOf(tree.leaves[k]) # zeros(0)
    /\ DOMAIN tree.nodes # {}

\* --------------------------------------------- verifier claims, continued
\* The structural conditions of the claim: a Groth16-shaped proof and exactly
\* three public signals, each a field element.
WellFormedRequest(req) ==
    /\ req.proof.shape = "groth16"
    /\ Len(req.publicSignals) = 3
    /\ \A i \in 1..Len(req.publicSignals) : isValidFieldElement(req.publicSignals[i])

\* C15: a request that is not well-formed never reaches the native
\* verification: its call is not suspended on groth16.verify and returns
\* without a native verification result.
C15_StructuralValidationFirst ==
    (verif.pc # "idle" /\ verificationKey = "vk"
       /\ ~WellFormedRequest(verif.request))
    => (verif.pc = "done" /\ verif.proofValid = "none")

\* C16: the server does not listen without a verification key, and no
\* verification is answered with the reason that the key is not loaded.
C16_KeyAbsenceIsFatal ==
    /\ server = "listening" => verificationKey = "vk"
    /\ verif.result # Invalid("Verification key not loaded")

\* C17: a request is accepted at most once, however often it is submitted.
C17_AcceptedAtMostOnce == accepted <= 1

\* C18 as stated (on a server that loaded its key): a request that was, when
\* it was submitted, the honest one for the latest payment is answered with
\* valid: true.
C18_AcceptedIfLatestAtSubmission ==
    (verif.pc = "done" /\ verificationKey = "vk" /\ latestAtCall)
    => verif.result.valid

\* C18 amended: a call that was suspended on the native verification (the
\* key is loaded) and returns while the payment of its honest request is
\* still the latest one returns valid: true.
C18_AcceptedIfLatestAtReturn ==
    [][ ( /\ VerifyReturns
          /\ verif.pc = "awaiting"
          /\ HonestForLatest(verif.request)' )
        => verif'.result.valid ]_vars

\* The honest request for the second payment was accepted.
C18_Witness ==
    /\ verif.pc = "done"
    /\ Len(payments) = 2
    /\ verif.request = HonestRequest(2)
    /\ latestAtCall
    /\ verif.result.valid

\* --------------------------------------------------- tree claims, frames
\* The cache keys insert at index i clears: the ancestors of leaf i.
AncestorKeys(t, i) == {<<level, i \div Pow2(level)>> : level \in 1..t.depth}

\* C23: an insert at index i removes from the node cache exactly the cached
\* ancestors (level, floor(i / 2^level)), level = 1..depth, and keeps every
\* other entry with its value; and every entry in the cache is the hash of
\* its subtree computed from the current leaves.
C23_CacheInvalidationFrame ==
    [][ /\ InsertReturns =>
              /\ DOMAIN tree'.nodes
                   = (DOMAIN tree.nodes) \ AncestorKeys(tree, treeRet'.arg)
              /\ \A k \in DOMAIN tree'.nodes : tree'.nodes[k] = tree.nodes[k]
        /\ \A k \in DOMAIN tree'.nodes :
              tree'.nodes[k] = FullNode(tree'.leaves, k[1], k[2]) ]_vars

\* An insert next to a cached subtree: the cache lost the ancestors of the
\* new leaf and kept the entry of the neighbouring pair.
C23_Witness ==
    /\ treeRet = [op |-> "insert", arg |-> 2]
    /\ DOMAIN tree.nodes = {<<1, 0>>}

\* The two trees hold the same leaves, leaf count and depth.
SameLogicalState(t1, t2) ==
    /\ t1.leaves = t2.leaves
    /\ t1.nextLeafIndex = t2.nextLeafIndex
    /\ t1.depth = t2.depth

\* The cache of t2 holds every entry of the cache of t1.
CacheGrows(t1, t2) ==
    /\ DOMAIN t1.nodes \subseteq DOMAIN t2.nodes
    /\ \A k \in DOMAIN t1.nodes : t2.nodes[k] = t1.nodes[k]

\* The tree after each read operation made on t.
AfterReads(t) ==
    {[t EXCEPT !.nodes = getRoot(t).nodes]}
    \cup {[t EXCEPT !.nodes = getProof(t, i).nodes] : i \in 0..(leafCount(t) - 1)}
    \cup {getCurrentRoot(<<t>>).tree[1]}
    \cup {verifyAfterAwait([NoVerif.request EXCEPT !.root = r,
                                !.priceCents = <<<<1>>>>,
                                !.quoteId = <<<<1>>>>,
                                !.publicSignals = <<r, stringToField(<<1>>), <<1>>>>],
                           "true", <<t>>).tree[1] :
             r \in {getRoot(t).value, zeros(0)}}

\* C24: a step that is not an insert (getRoot, getProof) leaves the leaves,
\* the leaf count and the depth as they were and only adds cache entries; the
\* same holds for the tree after getRoot, getProof, getCurrentRoot and the
\* checks of verifyPaymentProof made on any reachable tree.
C24_ReadsKeepLogicalState ==
    [][ /\ ~InsertReturns =>
              /\ SameLogicalState(tree, tree')
              /\ CacheGrows(tree, tree')
        /\ \A t \in AfterReads(tree') :
              /\ SameLogicalState(tree', t)
              /\ CacheGrows(tree', t) ]_vars

\* A proof read has just filled cache entries of a tree with three leaves.
C24_Witness ==
    /\ treeRet.op = "getProof"
    /\ leafCount(tree) = 3
    /\ Cardinality(DOMAIN tree.nodes) >= 2

\* The sibling of a node index.
SiblingOf(index) == IF index % 2 = 0 THEN index + 1 ELSE index - 1

\* C25: for every index i below 2^depth getProof(i) returns depth path
\* elements and depth directions; direction l is bit l of i and element l is
\* the value of the sibling of the ancestor of i at level l, computed from
\* the leaves, which is the zero hash of level l when no leaf was inserted
\* under that sibling.
C25_ProofShape ==
    \A i \in 0..(Pow2(tree.depth) - 1) :
        LET p == getProof(tree, i)
        IN  /\ Len(p.pathElements) = tree.depth
            /\ Len(p.pathIndices) = tree.depth
            /\ \A l \in 0..(tree.depth - 1) :
                  LET sib == SiblingOf(i \div Pow2(l))
                  IN  /\ p.pathIndices[l + 1] \in {0, 1}
                      /\ p.pathIndices[l + 1] = (i \div Pow2(l)) % 2
                      /\ p.pathElements[l + 1] = FullNode(tree.leaves, l, sib)
                      /\ tree.nextLeafIndex <= sib * Pow2(l)
                            => p.pathElements[l + 1] = zeros(l)

\* A tree with three leaves: the proof of leaf 2 has an empty sibling at
\* level 0 and a hashed sibling at level 1.
C25_Witness ==
    /\ leafCount(tree) = 3
    /\ getProof(tree, 2).pathElements[1] = zeros(0)
    /\ getProof(tree, 2).pathElements[2] # zeros(1)
    /\ getProof(tree, 2).pathIndices = <<0, 1>>

\* C26: zeros[0] is "0" and zeros[k+1] = hash2(zeros[k], zeros[k]), which is
\* the hash of a subtree of that height without leaves; a new tree has the
\* root zeros[depth]; and in every state a node without an inserted leaf under
\* it evaluates to the zero hash of its level.
C26_ZeroHashes ==
    /\ zeros(0) = <<0>>
    /\ \A k \in 0..(tree.depth - 1) :
          /\ zeros(k + 1) = poseidon2Sync(zeros(k), zeros(k))
          /\ zeros(k + 1) = FullNode(<<>>, k + 1, 0)
    /\ getRoot(NewMerkleTree(tree.depth)).value = zeros(tree.depth)
    /\ \A level \in 0..tree.depth :
          \A index \in 0..(Pow2(tree.depth - level) - 1) :
              tree.nextLeafIndex <= index * Pow2(level)
                 => _getNode(tree, index, level).value = zeros(level)

\* A tree with one leaf and cached nodes: its right half is empty.
C26_Witness ==
    /\ leafCount(tree) = 1
    /\ DOMAIN tree.nodes # {}
    /\ _getNode(tree, 1, 1).value = zeros(1)
    /\ getRoot(tree).value # zeros(tree.depth)

\* The path from entry k on.
SubPath(path, k) ==
    [pathElements |-> SubSeq(path.pathElements, k, Len(path.pathElements)),
     pathIndices |-> SubSeq(path.pathIndices, k, Len(path.pathIndices))]

\* C27: verifyProof accepts no path shorter than the depth: neither the path
\* of a leaf cut at level k and started from the node value of that level,
\* nor the empty path with the root as the leaf.
C27_OnlyFullDepthPathsVerify ==
    \A tr \in ProofTriples(tree) :
        \A k \in 2..(tree.depth + 1) :
            ~verifyProof(HashBefore(tr.leaf, tr.path, k), SubPath(tr.path, k),
                         tr.root)

\* ------------------------------------------------------ service claims
\* The issue-with-zk handler answers in this step.
IssueReturns == issue = NoIssue /\ issue' # NoIssue

\* C21: issue-with-zk signs a ticket only in a step in which
\* verifyPaymentProof has returned valid, the quote named by quoteId is
\* stored and its priceCents equals the request's; in every other case
\* (invalid proof, unknown or expired quote, price mismatch, exception) no
\* ticket is issued.
C21_TicketOnlyForVerifiedQuotedPrice ==
    [][ /\ ~IssueReturns => ticketsIssued' = ticketsIssued
        /\ IssueReturns =>
              LET request == verif'.request
                  granted ==
                      /\ verif'.result.valid
                      /\ \E i \in 1..Len(quotes) :
                            /\ quotes[i].stored
                            /\ <<quotes[i].quoteId>> = request.quoteId
                            /\ <<quotes[i].priceCents>> = request.priceCents
              IN  /\ issue'.response = "ticket" => granted
                  /\ ticketsIssued' =
                        IF issue'.response = "ticket" THEN ticketsIssued + 1
                        ELSE ticketsIssued ]_vars

\* A ticket was issued for a verified payment of a stored quote's price.
C21_Witness == issue.response = "ticket" /\ ticketsIssued = 1

\* C22: for each ticket at most one POST /api/verify request is answered
\* valid: true, whether the requests come one after the other or overlap.
C22_SingleUse ==
    \A id \in DOMAIN ticketDb :
        Cardinality({h \in ScanHandlers :
                        scans[h].ticketId = id /\ scans[h].response = "valid"}) <= 1

\* C28: verifyTicketProof has returned true only where groth16.verify itself
\* returned true.
C28_TrueOnlyIfNativeTrue ==
    \A h \in ScanHandlers :
        scans[h].proofValid = "true" => scans[h].native = "true"

\* C29: the root a request carries is compared with the accumulator root
\* of the moment verifyPaymentProof returns: valid: true implies that the two
\* are equal then, and a request that was the honest one for the latest
\* payment when it was submitted, and is no longer because a payment was
\* inserted while groth16.verify was pending, is rejected for its stale root.
C29_RootCheckedAfterAwait ==
    [][ VerifyReturns =>
          /\ verif'.result.valid => verif'.request.root = RootAtReturn
          /\ ( /\ verif.pc = "awaiting"
               /\ latestAtCall
               /\ ~HonestForLatest(verif.request)' )
             => verif'.result = StaleRootResult ]_vars

\* An honest request for the then latest payment was overtaken by a second
\* payment and refused.
C29_Witness ==
    /\ verif.pc = "done"
    /\ latestAtCall
    /\ Len(payments) = 2
    /\ verif.request = HonestRequest(1)
    /\ verif.result = StaleRootResult

\* C30: once the service holds a tree, no step (no further or overlapping
\* initialize call among them) replaces it by a tree with fewer leaves or
\* without a leaf it held.
C30_InitializeIdempotent ==
    [][ merkleTree # <<>> =>
          /\ merkleTree' # <<>>
          /\ leafCount(tree') >= leafCount(tree)
          /\ \A k \in DOMAIN tree.leaves :
                k \in DOMAIN tree'.leaves /\ tree'.leaves[k] = tree.leaves[k] ]_vars

====
